---- MODULE Spec2Model ----
(***************************************************************************)
(* Model of pythonic_fp.singletons: the Nada singleton (nada.py) and the   *)
(* Sentinel registry (sentinel.py).                                        *)
(*                                                                         *)
(* Python values are pairs <<kind, n>>.  Objects of the two classes are    *)
(* <<"Nada", i>> and <<"Sentinel", i>>, i being the allocation number, so  *)
(* that two objects are identical exactly when the pairs are equal.        *)
(***************************************************************************)
EXTENDS Integers, Sequences, FiniteSets, TLC

\* ------------------------------------------------------------------ bounds
NumThreads == 2
MaxFlavorVal == 2
MaxChain == 2
MaxIdx == 3
MaxLen == 2
HashMod == 101

\* ------------------------------------------------------------ Python values
None == <<"None", 0>>

NoThread == 0

MainThread == 1

Threads == 1..NumThreads

NumericKinds == {"int", "float", "bool"}

\* The flavors requested: 1.0 and 1, 2, ...: 1 == 1.0 in Python and they hash
\* alike, while 1 != 2.
Flavors == {<<"float", 1>>} \cup {<<"int", v>> : v \in 1..MaxFlavorVal}

\* Operands of the arithmetic and comparison operators that are not Nada.
Operands == {<<"int", 0>>, <<"int", 5>>, <<"str", 1>>, None}

\* a == b for the values of the model: numbers compare by value across int,
\* float and bool; every other value (objects by identity) equals only itself.
PyEq(a, b) ==
    IF a[1] \in NumericKinds /\ b[1] \in NumericKinds THEN a[2] = b[2] ELSE a = b

VARIABLES
    _instance,      \* Nada._instance
    _hash,          \* Nada._hash
    nadaObjs,       \* number of Nada objects allocated so far
    _flavors,       \* Sentinel._flavors, a set of <<key, sentinel>>
    _lock,          \* Sentinel._lock: the thread holding it, or NoThread
    sentObjs,       \* number of Sentinel objects allocated so far
    _flavor,        \* the _flavor slots that are set, a set of <<sentinel, flavor>>
    started,        \* the threads that are running
    instantiatedFirst, \* Nada._instance was set when the first thread was started
    pc,             \* each thread's position
    local,          \* each thread's local variables
    cur,            \* the value of the chain being evaluated, and its length
    last,           \* the last whole operation: what was asked and what came back
    nadaReturned,   \* every object a Nada() call has returned
    hashSeen,       \* every value a hash(Nada()) call has returned
    sentReturned,   \* every <<flavor, object>> a Sentinel(flavor) call has returned
    sentCreated     \* every <<flavor, object>> Sentinel.__new__ has allocated

vars == <<_instance, _hash, nadaObjs, _flavors, _lock, sentObjs, _flavor, started,
          instantiatedFirst, pc, local, cur, last, nadaReturned, hashSeen,
          sentReturned, sentCreated>>

nadaVars == <<_instance, _hash, nadaObjs>>

sentVars == <<_flavors, _lock, sentObjs, _flavor>>

threadVars == <<started, instantiatedFirst, pc, local>>

seqVars == <<cur, last>>

\* ------------------------------------------------------------------- Nada
\* The class attributes of Nada, as one value.
NadaClass == [instance |-> _instance, hash |-> _hash, objs |-> nadaObjs]

\* hash of a tuple from the hashes of its items: a running combination, so
\* that the result depends on every item's hash.
RECURSIVE TupleHash(_)
TupleHash(hs) ==
    IF hs = <<>> THEN 1
    ELSE (3 * TupleHash(SubSeq(hs, 1, Len(hs) - 1)) + hs[Len(hs)]) % HashMod

\* hash((cls._instance, (cls._instance,))) where hash(cls._instance) read a
\* for the outer item and b for the item of the inner tuple.
HashOfPair(a, b) == TupleHash(<<a, TupleHash(<<b>>)>>)

InstanceIsNoneAlways(inst) == TRUE

\* cls._instance is None
InstanceIsNone(inst) == inst = None

\* Nada.__new__, run without interruption: the class attributes afterwards
\* and the object returned.
Nada__new__(C) ==
    IF InstanceIsNone(C.instance)
    THEN LET o == <<"Nada", C.objs + 1>>
         IN [instance |-> o, hash |-> HashOfPair(C.hash, C.hash),
             objs |-> C.objs + 1, ret |-> o, raised |-> "none"]
    ELSE [instance |-> C.instance, hash |-> C.hash, objs |-> C.objs,
          ret |-> C.instance, raised |-> "none"]

Nada__hash__Default(C) == 0

\* Nada.__hash__
Nada__hash__(C) == C.hash

Nada__bool__True(self) == TRUE

\* Nada.__bool__
Nada__bool__(self) == FALSE

\* bool(v)
Bool(v) ==
    IF v[1] = "Nada" THEN Nada__bool__(v)
    ELSE IF v[1] \in NumericKinds THEN v[2] # 0
    ELSE IF v[1] = "None" THEN FALSE
    ELSE TRUE

CmpOps == {"==", "!=", "<", "<=", ">", ">="}

\* The comparison Python tries on the right operand when the left one's
\* returns NotImplemented.
Reflected(op) ==
    CASE op = "<" -> ">"
      [] op = "<=" -> ">="
      [] op = ">" -> "<"
      [] op = ">=" -> "<="
      [] OTHER -> op

Nada__add__None(self, right, C) ==
    [instance |-> C.instance, hash |-> C.hash, objs |-> C.objs,
     ret |-> None, raised |-> "none"]

\* Nada.__add__, __radd__, __mul__, __rmul__
Nada__add__(self, right, C) == Nada__new__(C)

Nada__radd__(self, left, C) == Nada__new__(C)

Nada__mul__(self, right, C) == Nada__new__(C)

Nada__rmul__(self, left, C) == Nada__new__(C)

Nada__eq__False(self, op, right, C) ==
    [instance |-> C.instance, hash |-> C.hash, objs |-> C.objs,
     ret |-> <<"bool", 0>>, raised |-> "none"]

\* Nada.__eq__, __ne__, __ge__, __gt__, __le__, __lt__: op names the method
Nada__eq__(self, op, right, C) == Nada__new__(C)

\* Nada.__getitem__
Nada__getitem__(self, index, C) == Nada__new__(C)

\* Nada.__call__
Nada__call__(self, args, C) == Nada__new__(C)

\* Nada.__getattr__(name)(*args): the method returned, called
Nada__getattr__(self, name, args, C) == Nada__new__(C)

\* left op right for + and *: the builtin operands return NotImplemented for
\* a Nada on the other side, so Python falls back to Nada's reflected method.
BinaryOp(op, left, right, C) ==
    IF left[1] = "Nada"
    THEN IF op = "+" THEN Nada__add__(left, right, C) ELSE Nada__mul__(left, right, C)
    ELSE IF op = "+" THEN Nada__radd__(right, left, C) ELSE Nada__rmul__(right, left, C)

\* left op right for the six comparisons, one side at least being a Nada.
RichCompare(op, left, right, C) ==
    IF left[1] = "Nada"
    THEN Nada__eq__(left, op, right, C)
    ELSE Nada__eq__(right, Reflected(op), left, C)

\* --------------------------------------------------------- Nada.__setitem__
\* An index is an int (isSlice FALSE, the int in start) or a slice.
IntIndices == {[isSlice |-> FALSE, start |-> <<"int", i>>, stop |-> None, step |-> None] :
                  i \in {-1, 0, MaxIdx}}

SliceBounds == {None} \cup {<<"int", i>> : i \in 0..MaxIdx}

SliceSteps == {None} \cup {<<"int", i>> : i \in 0..3}

Slices == {[isSlice |-> TRUE, start |-> a, stop |-> b, step |-> c] :
              a \in {None, <<"int", 0>>, <<"int", 1>>}, b \in SliceBounds, c \in SliceSteps}

Indices == IntIndices \cup Slices

\* What is assigned: a tuple or a generator of n items, or the int 5.
Iterables == {<<k, n>> : k \in {"tuple", "gen"}, n \in 0..MaxLen}

\* isinstance(items, Iterable): Nada defines __iter__
IsIterable(items) == items[1] \in {"tuple", "gen", "Nada"}

\* len(items) where items has __len__ (Nada.__len__ returns 0), and the count
\* of the items iterated otherwise (iter(Nada()) is empty)
LenIter(items) == IF items[1] = "Nada" THEN 0 ELSE items[2]

\* len(range(start, stop, step)) for step > 0
SizeSliceRange(start, stop, step) ==
    IF stop <= start THEN 0 ELSE (stop - start + step - 1) \div step

\* size_slice = (stop - start + 1) // step, for step > 0
SizeSlice(start, stop, step) == (stop - start + 1) \div step

Raise(C, exc) ==
    [instance |-> C.instance, hash |-> C.hash, objs |-> C.objs,
     ret |-> None, raised |-> exc]

\* Nada.__setitem__
Nada__setitem__(self, index, items, C) ==
    LET C1 == Nada__new__(C)
    IN IF items = C1.ret THEN Nada__new__(C1)
       ELSE IF index.isSlice
       THEN IF IsIterable(items)
            THEN LET start == IF index.start = None THEN 0 ELSE index.start[2]
                     step == IF index.step = None THEN 1 ELSE index.step[2]
                 IN IF index.stop = None THEN Nada__new__(C1)
                    ELSE IF step = 0 THEN Raise(C1, "ZeroDivisionError")
                    ELSE IF SizeSlice(start, index.stop[2], step) = LenIter(items)
                    THEN Nada__new__(C1)
                    ELSE Raise(C1, "ValueError")
            ELSE Raise(C1, "TypeError")
       ELSE Nada__new__(C1)

\* ------------------------------------------------- one thread, whole handlers
NoIndex == [isSlice |-> FALSE, start |-> None, stop |-> None, step |-> None]

\* A thread's locals outside any call.
NoLocals == [op |-> "", flavor |-> None, a |-> 0, b |-> 0, self |-> None]

NoChain == [val |-> None, depth |-> 0]

NoOp == [op |-> "init", sym |-> "", arg |-> None, idx |-> NoIndex,
         ret |-> None, raised |-> "none"]

Init ==
    /\ _instance = None
    /\ _hash = 0
    /\ nadaObjs = 0
    /\ _flavors = {}
    /\ _lock = NoThread
    /\ sentObjs = 0
    /\ _flavor = {}
    /\ started = {MainThread}
    /\ instantiatedFirst = FALSE
    /\ pc = [t \in Threads |-> "idle"]
    /\ local = [t \in Threads |-> NoLocals]
    /\ cur = NoChain
    /\ last = NoOp
    /\ nadaReturned = {}
    /\ hashSeen = {}
    /\ sentReturned = {}
    /\ sentCreated = {}

SetNadaClass(R) ==
    /\ _instance' = R.instance
    /\ _hash' = R.hash
    /\ nadaObjs' = R.objs

\* x = Nada(): the expression every chain starts from
SeqNada ==
    LET R == Nada__new__(NadaClass)
    IN /\ SetNadaClass(R)
       /\ cur' = [val |-> R.ret, depth |-> 0]
       /\ last' = [NoOp EXCEPT !.op = "Nada", !.ret = R.ret]
       /\ nadaReturned' = nadaReturned \cup {R.ret}
       /\ UNCHANGED <<sentVars, threadVars, hashSeen, sentReturned, sentCreated>>

\* hash(Nada())
SeqHash ==
    LET R == Nada__new__(NadaClass)
        h == Nada__hash__(R)
    IN /\ SetNadaClass(R)
       /\ last' = [NoOp EXCEPT !.op = "hash", !.ret = <<"int", h>>]
       /\ nadaReturned' = nadaReturned \cup {R.ret}
       /\ hashSeen' = hashSeen \cup {h}
       /\ UNCHANGED <<sentVars, threadVars, cur, sentReturned, sentCreated>>

ChainSyms == {"call", "method", "getitem", "+", "r+", "*", "r*"}

\* The next link of the chain applied to x with the argument arg.
ChainStep(sym, x, arg, C) ==
    CASE sym = "call" -> Nada__call__(x, arg, C)
      [] sym = "method" -> Nada__getattr__(x, "foo", arg, C)
      [] sym = "getitem" -> Nada__getitem__(x, arg, C)
      [] sym = "+" -> BinaryOp("+", x, arg, C)
      [] sym = "r+" -> BinaryOp("+", arg, x, C)
      [] sym = "*" -> BinaryOp("*", x, arg, C)
      [] sym = "r*" -> BinaryOp("*", arg, x, C)

\* x = x(arg), x = x.foo(arg), x = x[arg], x = x + arg, x = arg + x, ...
SeqChain(sym, arg) ==
    /\ cur.val[1] = "Nada"
    /\ cur.depth < MaxChain
    /\ LET R == ChainStep(sym, cur.val, arg, NadaClass)
       IN /\ SetNadaClass(R)
          /\ cur' = [val |-> R.ret, depth |-> cur.depth + 1]
          /\ last' = [NoOp EXCEPT !.op = "chain", !.sym = sym, !.arg = arg,
                                  !.ret = R.ret, !.raised = R.raised]
    /\ UNCHANGED <<sentVars, threadVars, nadaReturned, hashSeen, sentReturned,
                   sentCreated>>

\* x op other (side "left") or other op x (side "right"), x being a Nada
SeqCompare(op, side, other) ==
    /\ cur.val[1] = "Nada"
    /\ LET R == IF side = "left" THEN RichCompare(op, cur.val, other, NadaClass)
                ELSE RichCompare(op, other, cur.val, NadaClass)
       IN /\ SetNadaClass(R)
          /\ last' = [NoOp EXCEPT !.op = "compare", !.sym = op, !.arg = other,
                                  !.ret = R.ret, !.raised = R.raised]
    /\ UNCHANGED <<sentVars, threadVars, cur, nadaReturned, hashSeen, sentReturned,
                   sentCreated>>

\* x[index] = items, x being a Nada
SeqSetItem(index, items) ==
    /\ cur.val[1] = "Nada"
    /\ LET R == Nada__setitem__(cur.val, index, items, NadaClass)
       IN /\ SetNadaClass(R)
          /\ last' = [NoOp EXCEPT !.op = "setitem", !.arg = items, !.idx = index,
                                  !.ret = R.ret, !.raised = R.raised]
    /\ UNCHANGED <<sentVars, threadVars, cur, nadaReturned, hashSeen, sentReturned,
                   sentCreated>>

NextSeq ==
    \/ SeqNada
    \/ SeqHash
    \/ \E sym \in ChainSyms, arg \in Operands \cup {cur.val} : SeqChain(sym, arg)
    \/ \E op \in CmpOps, side \in {"left", "right"}, other \in Operands \cup {cur.val} :
          SeqCompare(op, side, other)
    \/ \E index \in Indices, items \in Iterables \cup {<<"int", 5>>, cur.val} :
          SeqSetItem(index, items)

SpecSeq == Init /\ [][NextSeq]_vars

\* ------------------------------------------------------------ threads
Goto(t, label) == pc' = [pc EXCEPT ![t] = label]

\* The call returns to the caller: its locals are gone.
Return(t) ==
    /\ pc' = [pc EXCEPT ![t] = "idle"]
    /\ local' = [local EXCEPT ![t] = NoLocals]

\* The main thread, between two operations, starts thread t.
Start(t) ==
    /\ t \notin started
    /\ pc[MainThread] = "idle"
    /\ started' = started \cup {t}
    /\ instantiatedFirst' =
          IF started = {MainThread} THEN _instance # None ELSE instantiatedFirst
    /\ UNCHANGED <<nadaVars, sentVars, pc, local, seqVars, nadaReturned, hashSeen,
                   sentReturned, sentCreated>>

\* ------------------------------------------------- Nada(), step by step
\* Thread t calls Nada() (op "Nada") or hash(Nada()) (op "hash"): __new__
\* tests cls._instance.
NadaCall(t, op) ==
    /\ t \in started
    /\ pc[t] = "idle"
    /\ local' = [local EXCEPT ![t].op = op]
    /\ IF InstanceIsNone(_instance) THEN Goto(t, "n_alloc") ELSE Goto(t, "n_ret")
    /\ UNCHANGED <<nadaVars, sentVars, started, instantiatedFirst, seqVars,
                   nadaReturned, hashSeen, sentReturned, sentCreated>>

\* cls._instance = super(Nada, cls).__new__(cls)
NadaAlloc(t) ==
    /\ pc[t] = "n_alloc"
    /\ nadaObjs' = nadaObjs + 1
    /\ _instance' = <<"Nada", nadaObjs + 1>>
    /\ Goto(t, "n_hash1")
    /\ UNCHANGED <<_hash, sentVars, started, instantiatedFirst, local, seqVars,
                   nadaReturned, hashSeen, sentReturned, sentCreated>>

\* hash((cls._instance, (cls._instance,))): the hash of the first item
NadaHash1(t) ==
    /\ pc[t] = "n_hash1"
    /\ local' = [local EXCEPT ![t].a = Nada__hash__(NadaClass)]
    /\ Goto(t, "n_hash2")
    /\ UNCHANGED <<nadaVars, sentVars, started, instantiatedFirst, seqVars,
                   nadaReturned, hashSeen, sentReturned, sentCreated>>

\* ... and the hash of the item of the inner tuple
NadaHash2(t) ==
    /\ pc[t] = "n_hash2"
    /\ local' = [local EXCEPT ![t].b = Nada__hash__(NadaClass)]
    /\ Goto(t, "n_store")
    /\ UNCHANGED <<nadaVars, sentVars, started, instantiatedFirst, seqVars,
                   nadaReturned, hashSeen, sentReturned, sentCreated>>

\* cls._hash = <the hash computed>
NadaStore(t) ==
    /\ pc[t] = "n_store"
    /\ _hash' = HashOfPair(local[t].a, local[t].b)
    /\ Goto(t, "n_ret")
    /\ UNCHANGED <<_instance, nadaObjs, sentVars, started, instantiatedFirst, local,
                   seqVars, nadaReturned, hashSeen, sentReturned, sentCreated>>

\* return cls._instance
NadaRet(t) ==
    /\ pc[t] = "n_ret"
    /\ nadaReturned' = nadaReturned \cup {_instance}
    /\ IF local[t].op = "hash"
       THEN /\ local' = [local EXCEPT ![t].self = _instance]
            /\ Goto(t, "h_read")
       ELSE Return(t)
    /\ UNCHANGED <<nadaVars, sentVars, started, instantiatedFirst, seqVars, hashSeen,
                   sentReturned, sentCreated>>

\* Nada.__hash__ on the object returned: return self._hash
HashRead(t) ==
    /\ pc[t] = "h_read"
    /\ hashSeen' = hashSeen \cup {Nada__hash__(NadaClass)}
    /\ Return(t)
    /\ UNCHANGED <<nadaVars, sentVars, started, instantiatedFirst, seqVars,
                   nadaReturned, sentReturned, sentCreated>>

NextNada ==
    \/ \E t \in Threads : Start(t)
    \/ \E t \in Threads, op \in {"Nada", "hash"} : NadaCall(t, op)
    \/ \E t \in Threads : NadaAlloc(t)
    \/ \E t \in Threads : NadaHash1(t)
    \/ \E t \in Threads : NadaHash2(t)
    \/ \E t \in Threads : NadaStore(t)
    \/ \E t \in Threads : NadaRet(t)
    \/ \E t \in Threads : HashRead(t)

SpecNada == Init /\ [][NextNada]_vars

\* ----------------------------------------------- Sentinel(flavor), step by step
KeyMatchIdentity(key, flavor) == key = flavor

\* A key of the dict matches the flavor looked up: equal hashes and ==
KeyMatch(key, flavor) == PyEq(key, flavor)

\* flavor in cls._flavors
FlavorIn(flavor, reg) == \E e \in reg : KeyMatch(e[1], flavor)

\* cls._flavors[flavor]
DictGet(reg, flavor) == (CHOOSE e \in reg : KeyMatch(e[1], flavor))[2]

\* cls._flavors[flavor] = obj: a key already there is kept, its value replaced
DictSet(reg, flavor, obj) ==
    IF FlavorIn(flavor, reg)
    THEN {IF KeyMatch(e[1], flavor) THEN <<e[1], obj>> ELSE e : e \in reg}
    ELSE reg \cup {<<flavor, obj>>}

FlavorNotInUnderLockSkipped(flavor, reg) == TRUE

\* the test repeated with the lock held: flavor not in cls._flavors
FlavorNotInUnderLock(flavor, reg) == ~FlavorIn(flavor, reg)

\* hasattr(self, '_flavor')
HasFlavor(self, slots) == \E e \in slots : e[1] = self

\* self._flavor = flavor
SetFlavor(self, flavor, slots) == {e \in slots : e[1] # self} \cup {<<self, flavor>>}

\* Thread t calls Sentinel(flavor): __new__ tests the dict without the lock.
SentCall(t, flavor) ==
    /\ t \in started
    /\ pc[t] = "idle"
    /\ local' = [local EXCEPT ![t].op = "Sentinel", ![t].flavor = flavor]
    /\ IF ~FlavorIn(flavor, _flavors) THEN Goto(t, "s_lock") ELSE Goto(t, "s_ret")
    /\ UNCHANGED <<nadaVars, sentVars, started, instantiatedFirst, seqVars,
                   nadaReturned, hashSeen, sentReturned, sentCreated>>

\* with cls._lock: acquire
SentLock(t) ==
    /\ pc[t] = "s_lock"
    /\ _lock = NoThread
    /\ _lock' = t
    /\ Goto(t, "s_check2")
    /\ UNCHANGED <<nadaVars, _flavors, sentObjs, _flavor, started, instantiatedFirst,
                   local, seqVars, nadaReturned, hashSeen, sentReturned, sentCreated>>

\* if flavor not in cls._flavors, with the lock held
SentCheck2(t) ==
    /\ pc[t] = "s_check2"
    /\ IF FlavorNotInUnderLock(local[t].flavor, _flavors)
       THEN Goto(t, "s_insert") ELSE Goto(t, "s_unlock")
    /\ UNCHANGED <<nadaVars, sentVars, started, instantiatedFirst, local, seqVars,
                   nadaReturned, hashSeen, sentReturned, sentCreated>>

\* cls._flavors[flavor] = super(Sentinel, cls).__new__(cls)
SentInsert(t) ==
    /\ pc[t] = "s_insert"
    /\ LET o == <<"Sentinel", sentObjs + 1>>
       IN /\ sentObjs' = sentObjs + 1
          /\ _flavors' = DictSet(_flavors, local[t].flavor, o)
          /\ sentCreated' = sentCreated \cup {<<local[t].flavor, o>>}
    /\ Goto(t, "s_unlock")
    /\ UNCHANGED <<nadaVars, _lock, _flavor, started, instantiatedFirst, local,
                   seqVars, nadaReturned, hashSeen, sentReturned>>

\* leaving the with block: release
SentUnlock(t) ==
    /\ pc[t] = "s_unlock"
    /\ _lock' = NoThread
    /\ Goto(t, "s_ret")
    /\ UNCHANGED <<nadaVars, _flavors, sentObjs, _flavor, started, instantiatedFirst,
                   local, seqVars, nadaReturned, hashSeen, sentReturned, sentCreated>>

\* return cls._flavors[flavor]
SentRet(t) ==
    /\ pc[t] = "s_ret"
    /\ LET o == DictGet(_flavors, local[t].flavor)
       IN /\ local' = [local EXCEPT ![t].self = o]
          /\ sentReturned' = sentReturned \cup {<<local[t].flavor, o>>}
    /\ Goto(t, "s_init")
    /\ UNCHANGED <<nadaVars, sentVars, started, instantiatedFirst, seqVars,
                   nadaReturned, hashSeen, sentCreated>>

\* __init__ on the object returned: if not hasattr(self, '_flavor')
SentInit(t) ==
    /\ pc[t] = "s_init"
    /\ IF ~HasFlavor(local[t].self, _flavor)
       THEN Goto(t, "s_setflavor") /\ UNCHANGED local
       ELSE Return(t)
    /\ UNCHANGED <<nadaVars, sentVars, started, instantiatedFirst, seqVars,
                   nadaReturned, hashSeen, sentReturned, sentCreated>>

\* self._flavor = flavor
SentSetFlavor(t) ==
    /\ pc[t] = "s_setflavor"
    /\ _flavor' = SetFlavor(local[t].self, local[t].flavor, _flavor)
    /\ Return(t)
    /\ UNCHANGED <<nadaVars, _flavors, _lock, sentObjs, started, instantiatedFirst,
                   seqVars, nadaReturned, hashSeen, sentReturned, sentCreated>>

NextSentinel ==
    \/ \E t \in Threads : Start(t)
    \/ \E t \in Threads, flavor \in Flavors : SentCall(t, flavor)
    \/ \E t \in Threads : SentLock(t)
    \/ \E t \in Threads : SentCheck2(t)
    \/ \E t \in Threads : SentInsert(t)
    \/ \E t \in Threads : SentUnlock(t)
    \/ \E t \in Threads : SentRet(t)
    \/ \E t \in Threads : SentInit(t)
    \/ \E t \in Threads : SentSetFlavor(t)

SpecSentinel == Init /\ [][NextSentinel]_vars

\* ------------------------------------------------------------------ claims

\* C1: the sentinels returned for two requested flavors are the same object,
\* and compare equal with ==, exactly when the flavors are equal.
C1_SameSentinelIffEqualFlavor ==
    \A p, q \in sentReturned :
        /\ (p[2] = q[2]) <=> PyEq(p[1], q[1])
        /\ PyEq(p[2], q[2]) <=> PyEq(p[1], q[1])

\* 1 and 1.0 (equal, not identical) and an unequal flavor have all been returned.
C1_Witness ==
    \E p, q, r \in sentReturned :
        /\ p[1] # q[1]
        /\ PyEq(p[1], q[1])
        /\ ~PyEq(r[1], p[1])

\* C2: in one thread every Nada() returns the same object as the first call, and
\* Nada._instance is never reassigned once it is set.
C2_SingleThreadSingleton ==
    /\ [](/\ Cardinality(nadaReturned) <= 1
          /\ nadaReturned # {} => nadaReturned = {_instance})
    /\ [][_instance # None => _instance' = _instance]_vars

\* Nada() is called again after hash(Nada()) has run.
C2_Witness ==
    /\ last.op = "Nada"
    /\ hashSeen # {}
    /\ last.ret = _instance

\* C3: every link of a chain started from Nada() (a call, a method call, an
\* index read, + or * on either side) evaluates, without raising, to the one
\* Nada instance.
C3_ChainAbsorbs ==
    last.op = "chain" =>
        /\ last.raised = "none"
        /\ last.ret[1] = "Nada"
        /\ last.ret = _instance
        /\ cur.val = _instance
        /\ nadaObjs = 1

\* A chain of MaxChain links whose last link is operand * x.
C3_Witness ==
    /\ last.op = "chain"
    /\ last.sym = "r*"
    /\ cur.depth = MaxChain
    /\ cur.val = _instance

\* C4: each of the six comparisons with a Nada on either side returns the Nada
\* singleton, which is falsy.
C4_ComparisonsAbsorb ==
    last.op = "compare" =>
        /\ last.raised = "none"
        /\ last.ret[1] = "Nada"
        /\ last.ret = _instance
        /\ ~Bool(last.ret)

\* Nada() == Nada() has been evaluated.
C4_Witness ==
    /\ last.op = "compare"
    /\ last.sym = "=="
    /\ last.arg = cur.val
    /\ last.ret = _instance

\* C5: under any interleaving at most one sentinel is created and stored per
\* flavor, and every request for an equal flavor returns it.
C5_OneSentinelPerFlavor ==
    /\ \A c, d \in sentCreated : PyEq(c[1], d[1]) => c[2] = d[2]
    /\ \A e, g \in _flavors : PyEq(e[1], g[1]) => e = g
    /\ Cardinality(_flavors) = sentObjs
    /\ \A p \in sentReturned : \E c \in sentCreated : PyEq(c[1], p[1]) /\ c[2] = p[2]

\* Two threads raced on the first request of equal flavors: one has inserted
\* and is returning, the other holds the lock before its second test.
C5_Witness ==
    \E t1, t2 \in Threads :
        /\ t1 # t2
        /\ pc[t1] = "s_ret"
        /\ pc[t2] = "s_check2"
        /\ PyEq(local[t1].flavor, local[t2].flavor)
        /\ \E c \in sentCreated : c[1] = local[t1].flavor

\* C6 as stated: under any interleaving of first Nada() calls at most one Nada
\* instance is ever created and every thread receives that instance.
C6_OneNadaUnderAnyInterleaving ==
    /\ nadaObjs <= 1
    /\ Cardinality(nadaReturned) <= 1

\* C6 amended: Nada.__new__ takes no lock; when only one thread runs, or Nada()
\* was instantiated before the first thread was started, at most one instance is
\* ever created and every Nada() returns it.
C6_OneNadaIfInstantiatedFirst ==
    (started = {MainThread} \/ instantiatedFirst) =>
        /\ nadaObjs <= 1
        /\ nadaReturned \subseteq {_instance}

\* Nada() was instantiated first and two threads are inside Nada() at once.
C6_Witness ==
    /\ instantiatedFirst
    /\ \E t1, t2 \in Threads : t1 # t2 /\ pc[t1] = "n_ret" /\ pc[t2] = "n_ret"

\* C7: for a slice with 0 <= start <= stop and step >= 2, assigning an iterable
\* (a tuple or a generator) raises ValueError exactly when its length differs
\* from len(range(start, stop, step)), and succeeds otherwise.
C7_ExtendedSliceArity ==
    (/\ last.op = "setitem"
     /\ last.idx.isSlice
     /\ last.idx.start[1] = "int" /\ last.idx.stop[1] = "int" /\ last.idx.step[1] = "int"
     /\ 0 <= last.idx.start[2] /\ last.idx.start[2] <= last.idx.stop[2]
     /\ last.idx.step[2] >= 2
     /\ last.arg \in Iterables) =>
        LET n == SizeSliceRange(last.idx.start[2], last.idx.stop[2], last.idx.step[2])
        IN /\ (last.raised = "ValueError") <=> (LenIter(last.arg) # n)
           /\ (LenIter(last.arg) = n) => (last.raised = "none")

\* C8: an index write with an integer index, with a unit-step slice and an
\* iterable of any length, or with a value that is not iterable, never raises.
C8_OtherWritesNeverRaise ==
    (/\ last.op = "setitem"
     /\ \/ ~last.idx.isSlice
        \/ last.idx.step \in {None, <<"int", 1>>} /\ IsIterable(last.arg)
        \/ ~IsIterable(last.arg)) =>
        last.raised = "none"

\* C9 as stated: under any interleaving every hash(Nada()) returns one value.
C9_HashFixedUnderAnyInterleaving == Cardinality(hashSeen) <= 1

\* C9 amended: when only one thread runs, or Nada() was instantiated before the
\* first thread was started, Nada._hash is computed once, from the initial
\* _hash of 0 at first construction, and every hash(Nada()) returns that value.
C9_HashFixedIfInstantiatedFirst ==
    (started = {MainThread} \/ instantiatedFirst) =>
        /\ _hash \in {0, HashOfPair(0, 0)}
        /\ _instance # None /\ (\A t \in Threads : pc[t] \notin {"n_hash1", "n_hash2", "n_store"})
              => _hash = HashOfPair(0, 0)
        /\ hashSeen \subseteq {HashOfPair(0, 0)}

\* Nada() was instantiated first, a hash has been observed, and another thread
\* is about to read the hash.
C9_Witness ==
    /\ instantiatedFirst
    /\ hashSeen # {}
    /\ \E t \in Threads : t # MainThread /\ pc[t] = "h_read"

\* C10: a flavor has a registry entry only once it has been requested, no entry
\* is ever removed or replaced, and a _flavor that is set is never altered.
C10_SentinelNeverChanges ==
    /\ [](\A e \in _flavors :
            \/ \E p \in sentReturned : p[1] = e[1]
            \/ \E t \in Threads : pc[t] # "idle" /\ local[t].flavor = e[1])
    /\ [][/\ \A e \in _flavors : e \in _flavors'
          /\ \A e \in _flavor : e \in _flavor']_vars

====
